---- MODULE Spec2Model ----
(***************************************************************************)
(* State-machine model of the PDF Template Designer's editing core:        *)
(* the element store and selection owned by App (src/App.tsx) and the      *)
(* pointer-gesture machine of Canvas (src/components/Canvas.tsx).          *)
(*                                                                         *)
(* Every event handler is one atomic action: React commits the state       *)
(* updates a handler queued before the next event is dispatched, so each   *)
(* handler reads the state left by the previous one.  Coordinates are      *)
(* integers (points); non-finite numbers are outside the model.  Of the    *)
(* attributes no handler of the model computes with, `opacity` (held in    *)
(* hundredths) stands for all of them (text, font, colour, src, ...): they *)
(* are carried by the same object spreads.                                 *)
(***************************************************************************)
EXTENDS Integers, Sequences, FiniteSets, TLC

VARIABLES
    elements,            \* App: useState<PdfElement[]>, array order = z-order
    selectedElementIds,  \* App: useState<string[]>
    interaction,         \* Canvas: useState<InteractionState>
    nextId,              \* number of identifiers uuidv4() has handed out
    failed,              \* the last handler ended by throwing (TypeError)
    emitted,             \* store callbacks the last handler called, in order
    gesture,             \* history: the store and pointer at the last pointer-down
    nGestures,           \* history: pointer-downs so far
    nEdits               \* history: property edits so far

vars == <<elements, selectedElementIds, interaction, nextId, failed, emitted,
          gesture, nGestures, nEdits>>

----------------------------------------------------------------------------
(* Bounds of the model *)

MaxIds == 2
MaxGestures == 1
MaxMoves == 2
MaxEdits == 1

(* Pointer positions relative to the canvas rectangle (clientX - rect.left,
   clientY - rect.top).  The canvas is drawn under a CSS scale (zoom), so these
   are not tied to the coordinates of the element under the pointer. *)
Pointers == { <<0, 0>>, <<20, 5>>, <<195, 18>> }

(* Fields edited in the properties panel, and the values typed into them *)
EditNames == { "width", "opacity", "x2", "y2" }
EditValues == { 5 }

(* Heights an added image gets: 150 / aspectRatio, here for a 30:1 picture *)
ImageHeights == { 5 }

----------------------------------------------------------------------------
(* Program constants *)

MinSize == 10
DuplicateOffset == 10

RESIZE_HANDLES == << "nw", "ne", "sw", "se", "n", "s", "w", "e" >>
LINE_RESIZE_HANDLES == << "start", "end" >>

PdfElementType == { "text", "image", "line", "placeholder" }

----------------------------------------------------------------------------
(* Array helpers *)

Range(s) == { s[i] : i \in DOMAIN s }

RECURSIVE Filter(_, _)
Filter(s, keep) ==
    IF s = << >> THEN << >>
    ELSE IF Head(s) \in keep THEN << Head(s) >> \o Filter(Tail(s), keep)
         ELSE Filter(Tail(s), keep)

\* ids.includes(id)
IncludesId(ids, id) == \E i \in DOMAIN ids : ids[i] = id

\* ids.indexOf(id), 1-based; 0 when absent
IndexOf(ids, id) ==
    IF IncludesId(ids, id)
    THEN CHOOSE i \in DOMAIN ids : ids[i] = id /\ \A j \in 1..(i - 1) : ids[j] # id
    ELSE 0

\* Mutant of Splice: removes the last entry (pop) instead of the one at index
Splice_Pop(s, index) == SubSeq(s, 1, Len(s) - 1)

\* arr.splice(index, 1)
Splice(s, index) == SubSeq(s, 1, index - 1) \o SubSeq(s, index + 1, Len(s))

Ids(els) == [ i \in DOMAIN els |-> els[i].id ]

\* Mutant of HandleIncludes: the e handle also counts as a south handle
HandleIncludes_EastIsSouthEast(handle, c) ==
    CASE handle = "nw"    -> c \in { "n", "w" }
      [] handle = "ne"    -> c \in { "n", "e" }
      [] handle = "sw"    -> c \in { "s", "w" }
      [] handle = "se"    -> c \in { "s", "e" }
      [] handle = "n"     -> c = "n"
      [] handle = "s"     -> c = "s"
      [] handle = "w"     -> c = "w"
      [] handle = "e"     -> c \in { "s", "e" }
      [] handle = "start" -> c \in { "s", "t", "a", "r" }
      [] handle = "end"   -> c \in { "e", "n", "d" }
      [] OTHER            -> FALSE

\* Mutant of HandleIncludes: compares with === instead of includes
HandleIncludes_Equals(handle, c) == handle = c

\* handle.includes(c) for a one-character c
HandleIncludes(handle, c) ==
    CASE handle = "nw"    -> c \in { "n", "w" }
      [] handle = "ne"    -> c \in { "n", "e" }
      [] handle = "sw"    -> c \in { "s", "w" }
      [] handle = "se"    -> c \in { "s", "e" }
      [] handle = "n"     -> c = "n"
      [] handle = "s"     -> c = "s"
      [] handle = "w"     -> c = "w"
      [] handle = "e"     -> c = "e"
      [] handle = "start" -> c \in { "s", "t", "a", "r" }
      [] handle = "end"   -> c \in { "e", "n", "d" }
      [] OTHER            -> FALSE

----------------------------------------------------------------------------
(* Canvas: lookups and geometry *)

\* elements.find(el => el.id === id) !== undefined
HasElement(els, id) == \E i \in DOMAIN els : els[i].id = id

\* elements.find(el => el.id === id)
getElementById(els, id) ==
    els[CHOOSE i \in DOMAIN els :
            els[i].id = id /\ \A j \in 1..(i - 1) : els[j].id # id]

\* The bounding box drawn for an element
BoundingBox(el) ==
    IF el.type = "line"
    THEN [ boxX |-> IF el.x < el.x2 THEN el.x ELSE el.x2,
           boxY |-> IF el.y < el.y2 THEN el.y ELSE el.y2,
           boxWidth  |-> IF el.x - el.x2 < 0 THEN el.x2 - el.x ELSE el.x - el.x2,
           boxHeight |-> IF el.y - el.y2 < 0 THEN el.y2 - el.y ELSE el.y - el.y2 ]
    ELSE [ boxX |-> el.x, boxY |-> el.y, boxWidth |-> el.width, boxHeight |-> el.height ]

\* Mutant of HandlesOf: the eight box handles are drawn on every kind
HandlesOf_BoxForAll(el) == RESIZE_HANDLES

\* The handles drawn on a selected element
HandlesOf(el) == IF el.type = "line" THEN LINE_RESIZE_HANDLES ELSE RESIZE_HANDLES

----------------------------------------------------------------------------
(* App: the element store *)

\* The element handleAddElement builds for each kind
NewElement(type, id, imageHeight) ==
    CASE type = "text" ->
           [ id |-> id, type |-> "text", x |-> 50, y |-> 50,
             width |-> 200, height |-> 20, opacity |-> 100 ]
      [] type = "image" ->
           [ id |-> id, type |-> "image", x |-> 100, y |-> 100,
             width |-> 150, height |-> imageHeight, opacity |-> 100 ]
      [] type = "line" ->
           [ id |-> id, type |-> "line", x |-> 150, y |-> 150,
             width |-> 100, height |-> 0, x2 |-> 250, y2 |-> 150, opacity |-> 100 ]
      [] type = "placeholder" ->
           [ id |-> id, type |-> "placeholder", x |-> 200, y |-> 200,
             width |-> 180, height |-> 30, opacity |-> 100 ]

\* Mutant of ToggleId: always pushes, never removes
ToggleId_PushOnly(newSelection, id) == Append(newSelection, id)

\* One step of the forEach of handleSelectElements: toggle id in newSelection
ToggleId(newSelection, id) ==
    IF IndexOf(newSelection, id) > 0
    THEN Splice(newSelection, IndexOf(newSelection, id))
    ELSE Append(newSelection, id)

RECURSIVE ToggleAll(_, _)
ToggleAll(newSelection, ids) ==
    IF ids = << >> THEN newSelection
    ELSE ToggleAll(ToggleId(newSelection, Head(ids)), Tail(ids))

\* handleSelectElements(ids, append): the next selectedElementIds
handleSelectElements(prev, ids, append) ==
    IF append THEN ToggleAll(prev, ids) ELSE ids

\* Mutant of handleUpdateElement: the map replaces every element's geometry
handleUpdateElement_Every(prev, updatedElement) ==
    [ i \in DOMAIN prev |-> [ updatedElement EXCEPT !.id = prev[i].id ] ]

\* handleUpdateElement(updatedElement): the next elements
handleUpdateElement(prev, updatedElement) ==
    [ i \in DOMAIN prev |->
        IF prev[i].id = updatedElement.id THEN updatedElement ELSE prev[i] ]

\* handleUpdateElements(updatedElements): the next elements
handleUpdateElements(prev, updatedElements) ==
    LET updatedIds == Range(Ids(updatedElements))
    IN  Filter(prev, { el \in Range(prev) : el.id \notin updatedIds }) \o updatedElements

\* handleDeleteElements(): the next elements
handleDeleteElements(prev, selected) ==
    Filter(prev, { el \in Range(prev) : ~IncludesId(selected, el.id) })

\* Mutant of DuplicatedElement: a line's end point is not offset
DuplicatedElement_NoEndOffset(el, newId) ==
    [ el EXCEPT !.id = newId, !.x = el.x + DuplicateOffset, !.y = el.y + DuplicateOffset ]

\* Mutant of DuplicatedElement: the copy keeps the identifier of the original
DuplicatedElement_SameId(el, newId) ==
    [ el EXCEPT !.x = el.x + DuplicateOffset, !.y = el.y + DuplicateOffset ]

\* The copy handleDuplicateElements makes of one element
DuplicatedElement(el, newId) ==
    IF "x2" \in DOMAIN el
    THEN [ el EXCEPT !.id = newId, !.x = el.x + DuplicateOffset, !.y = el.y + DuplicateOffset,
                     !.x2 = el.x2 + DuplicateOffset, !.y2 = el.y2 + DuplicateOffset ]
    ELSE [ el EXCEPT !.id = newId, !.x = el.x + DuplicateOffset, !.y = el.y + DuplicateOffset ]

\* newElements of handleDuplicateElements, the first copy getting identifier firstId
RECURSIVE DuplicatesOf(_, _, _)
DuplicatesOf(els, selected, firstId) ==
    IF els = << >> THEN << >>
    ELSE IF IncludesId(selected, Head(els).id)
         THEN << DuplicatedElement(Head(els), firstId) >>
                 \o DuplicatesOf(Tail(els), selected, firstId + 1)
         ELSE DuplicatesOf(Tail(els), selected, firstId)

----------------------------------------------------------------------------
(* Canvas: the geometry a pointer-move computes *)

\* One entry of initialStates (handleMouseDown, dragging branch)
InitialState(el) ==
    IF el.type = "line"
    THEN [ id |-> el.id, x |-> el.x, y |-> el.y, x2 |-> el.x2, y2 |-> el.y2 ]
    ELSE [ id |-> el.id, x |-> el.x, y |-> el.y ]

\* Mutant of DraggedElement: the moved element gets the opacity of a new element
DraggedElement_ResetsOpacity(el, initialState, dx, dy) ==
    IF el.type = "line"
    THEN [ el EXCEPT !.x = initialState.x + dx, !.y = initialState.y + dy,
                     !.x2 = initialState.x2 + dx, !.y2 = initialState.y2 + dy,
                     !.opacity = 100 ]
    ELSE [ el EXCEPT !.x = initialState.x + dx, !.y = initialState.y + dy,
                     !.opacity = 100 ]

\* Mutant of DraggedElement: a line's end point is left where it is
DraggedElement_StartOnly(el, initialState, dx, dy) ==
    [ el EXCEPT !.x = initialState.x + dx, !.y = initialState.y + dy ]

\* Mutant of DraggedElement: adds the displacement to the current position
DraggedElement_Accumulating(el, initialState, dx, dy) ==
    IF el.type = "line"
    THEN [ el EXCEPT !.x = el.x + dx, !.y = el.y + dy,
                     !.x2 = el.x2 + dx, !.y2 = el.y2 + dy ]
    ELSE [ el EXCEPT !.x = el.x + dx, !.y = el.y + dy ]

\* One entry of updatedElements (handleMouseMove, dragging branch)
DraggedElement(el, initialState, dx, dy) ==
    IF el.type = "line"
    THEN [ el EXCEPT !.x = initialState.x + dx, !.y = initialState.y + dy,
                     !.x2 = initialState.x2 + dx, !.y2 = initialState.y2 + dy ]
    ELSE [ el EXCEPT !.x = initialState.x + dx, !.y = initialState.y + dy ]

\* The element a pointer-move emits while resizing a line; handles other than
\* start and end emit nothing (the caller tests LineResizeEmits)
LineResizeEmits(handle) == handle \in { "start", "end" }

ResizedLine(line, handle, dx, dy) ==
    IF handle = "start"
    THEN [ line EXCEPT !.x = line.x + dx, !.y = line.y + dy ]
    ELSE [ line EXCEPT !.x2 = line.x2 + dx, !.y2 = line.y2 + dy ]

\* Mutant of RebasedLine: keeps the element of pointer-down
RebasedLine_Stale(line, dx, dy) == line

\* The element kept in the interaction state after a line resize move
RebasedLine(line, dx, dy) ==
    [ line EXCEPT !.x = line.x + dx, !.y = line.y + dy ]

\* Mutant of ResizedBox: clamps the size without recomputing the origin
ResizedBox_NoAnchor(originalElement, handle, dx, dy) ==
    LET w1 == IF HandleIncludes(handle, "e") THEN originalElement.width + dx
              ELSE originalElement.width
        w2 == IF HandleIncludes(handle, "w") THEN originalElement.width - dx ELSE w1
        x1 == IF HandleIncludes(handle, "w") THEN originalElement.x + dx
              ELSE originalElement.x
        h1 == IF HandleIncludes(handle, "s") THEN originalElement.height + dy
              ELSE originalElement.height
        h2 == IF HandleIncludes(handle, "n") THEN originalElement.height - dy ELSE h1
        y1 == IF HandleIncludes(handle, "n") THEN originalElement.y + dy
              ELSE originalElement.y
    IN  [ originalElement EXCEPT !.x = x1, !.y = y1,
                                 !.width = IF w2 < MinSize THEN MinSize ELSE w2,
                                 !.height = IF h2 < MinSize THEN MinSize ELSE h2 ]

\* The element a pointer-move emits while resizing a text, image or placeholder
ResizedBox(originalElement, handle, dx, dy) ==
    LET w1 == IF HandleIncludes(handle, "e") THEN originalElement.width + dx
              ELSE originalElement.width
        w2 == IF HandleIncludes(handle, "w") THEN originalElement.width - dx ELSE w1
        x1 == IF HandleIncludes(handle, "w") THEN originalElement.x + dx
              ELSE originalElement.x
        h1 == IF HandleIncludes(handle, "s") THEN originalElement.height + dy
              ELSE originalElement.height
        h2 == IF HandleIncludes(handle, "n") THEN originalElement.height - dy ELSE h1
        y1 == IF HandleIncludes(handle, "n") THEN originalElement.y + dy
              ELSE originalElement.y
        newX == IF w2 < MinSize /\ HandleIncludes(handle, "w")
                THEN originalElement.x + originalElement.width - MinSize ELSE x1
        newWidth == IF w2 < MinSize THEN MinSize ELSE w2
        newY == IF h2 < MinSize /\ HandleIncludes(handle, "n")
                THEN originalElement.y + originalElement.height - MinSize ELSE y1
        newHeight == IF h2 < MinSize THEN MinSize ELSE h2
    IN  [ originalElement EXCEPT !.x = newX, !.y = newY,
                                 !.width = newWidth, !.height = newHeight ]

----------------------------------------------------------------------------
(* Initial state: App and Canvas as constructed *)

Idle == [ type |-> "idle" ]

NoGesture == [ active |-> FALSE ]

\* The history of a gesture that starts: what is remembered of the gesture
\* before it, if anything, is carried along
Started(g, fresh) ==
    IF "last" \in DOMAIN g
    THEN [ k \in DOMAIN fresh \cup { "last" } |-> IF k = "last" THEN g.last ELSE fresh[k] ]
    ELSE fresh

\* The history of a gesture that has ended in interaction state ia: the store
\* at its pointer-down, the element pressed, the identifiers of its drag
\* snapshot, its total displacement and the number of its moves
Finished(g, ia) ==
    IF g.active
    THEN [ active |-> FALSE,
           last |-> [ type |-> ia.type, elements |-> g.elements, pressed |-> g.pressed,
                      ids |-> IF ia.type = "dragging"
                              THEN { ia.initialStates[i].id : i \in DOMAIN ia.initialStates }
                              ELSE { },
                      dx |-> g.mouseX - g.downX, dy |-> g.mouseY - g.downY,
                      moves |-> g.moves ] ]
    ELSE g

Init ==
    /\ elements = << >>
    /\ selectedElementIds = << >>
    /\ interaction = Idle
    /\ nextId = 0
    /\ failed = FALSE
    /\ emitted = << >>
    /\ gesture = NoGesture
    /\ nGestures = 0
    /\ nEdits = 0

----------------------------------------------------------------------------
(* App: toolbar, keyboard, panel and list handlers.                         *)
(* The toolbar buttons, the list rows, the panel inputs and the canvas      *)
(* background are operated by a click, which the browser delivers after the *)
(* pointer-up that ends a gesture: those handlers run while idle.  The      *)
(* keyboard shortcuts (delete, duplicate) and the completions of file reads *)
(* (image added, design loaded) arrive at any time.                         *)

\* handleAddElement('text' | 'line' | 'placeholder')
AddElement(type) ==
    /\ interaction.type = "idle"
    /\ nextId < MaxIds
    /\ nextId' = nextId + 1
    /\ elements' = Append(elements, NewElement(type, nextId + 1, 0))
    /\ selectedElementIds' = << nextId + 1 >>
    /\ failed' = FALSE
    /\ emitted' = << >>
    /\ UNCHANGED << interaction, gesture, nGestures, nEdits >>

\* handleAddElement('image'), at the img.onload that stores the element
AddImage(imageHeight) ==
    /\ nextId < MaxIds
    /\ nextId' = nextId + 1
    /\ elements' = Append(elements, NewElement("image", nextId + 1, imageHeight))
    /\ selectedElementIds' = << nextId + 1 >>
    /\ failed' = FALSE
    /\ emitted' = << >>
    /\ UNCHANGED << interaction, gesture, nGestures, nEdits >>

\* Mutant of DeleteElements: the selection is left as it was
DeleteElements_KeepsSelection ==
    /\ elements' = handleDeleteElements(elements, selectedElementIds)
    /\ failed' = FALSE
    /\ emitted' = << >>
    /\ UNCHANGED << selectedElementIds, interaction, nextId, gesture, nGestures, nEdits >>

\* Delete / Backspace key, or the panel's delete button
DeleteElements ==
    /\ elements' = handleDeleteElements(elements, selectedElementIds)
    /\ selectedElementIds' = << >>
    /\ failed' = FALSE
    /\ emitted' = << >>
    /\ UNCHANGED << interaction, nextId, gesture, nGestures, nEdits >>

\* Ctrl+D, or the panel's duplicate button
DuplicateElements ==
    LET newElements == DuplicatesOf(elements, selectedElementIds, nextId + 1)
    IN  /\ nextId + Len(newElements) <= MaxIds
        /\ nextId' = nextId + Len(newElements)
        /\ elements' = elements \o newElements
        /\ selectedElementIds' = Ids(newElements)
        /\ failed' = FALSE
        /\ emitted' = << >>
        /\ UNCHANGED << interaction, gesture, nGestures, nEdits >>

\* The element lists of the design files loaded: an empty design
LoadedDesigns == { << >> }

\* handleLoadDesign, at the reader.onload that stores the design
LoadDesign(design) ==
    /\ elements' = design
    /\ selectedElementIds' = << >>
    /\ failed' = FALSE
    /\ emitted' = << >>
    /\ UNCHANGED << interaction, nextId, gesture, nGestures, nEdits >>

\* The fields the properties panel offers for an element
EditFields(el) ==
    { "x", "y", "opacity" }
        \cup (IF el.type = "line" THEN { "x2", "y2" } ELSE { "width" })
        \cup (IF el.type \in { "text", "image", "placeholder" } THEN { "height" } ELSE { })

\* PropertiesPanel.handleChange on the one selected element
EditProperty(name, value) ==
    LET shown == Filter(elements,
                        { el \in Range(elements) : IncludesId(selectedElementIds, el.id) })
    IN  /\ interaction.type = "idle"
        /\ nEdits < MaxEdits
        /\ Len(shown) = 1
        /\ name \in EditFields(shown[1])
        /\ elements' = handleUpdateElement(elements, [ shown[1] EXCEPT ![name] = value ])
        /\ nEdits' = nEdits + 1
        /\ failed' = FALSE
        /\ emitted' = << >>
        /\ UNCHANGED << selectedElementIds, interaction, nextId, gesture, nGestures >>

\* ElementList.handleElementClick
ListClick(id, shiftKey) ==
    /\ interaction.type = "idle"
    /\ HasElement(elements, id)
    /\ selectedElementIds' = handleSelectElements(selectedElementIds, << id >>, shiftKey)
    /\ failed' = FALSE
    /\ emitted' = << [ op |-> "select", ids |-> << id >>, append |-> shiftKey ] >>
    /\ UNCHANGED << elements, interaction, nextId, gesture, nGestures, nEdits >>

\* Canvas onClick on the empty background
BackgroundClick ==
    /\ interaction.type = "idle"
    /\ selectedElementIds' = handleSelectElements(selectedElementIds, << >>, FALSE)
    /\ failed' = FALSE
    /\ emitted' = << [ op |-> "select", ids |-> << >>, append |-> FALSE ] >>
    /\ UNCHANGED << elements, interaction, nextId, gesture, nGestures, nEdits >>

----------------------------------------------------------------------------
(* Canvas: pointer handlers *)

\* Mutant of ElementIdsToDrag: drags the pressed element alone
ElementIdsToDrag_PressedOnly(selected, elementId) == << elementId >>

\* elementIdsToDrag of handleMouseDown
ElementIdsToDrag(selected, elementId) ==
    IF IncludesId(selected, elementId) THEN selected ELSE << elementId >>

\* Mutant of InitialStates: positions are taken from the store as it was at the
\* pointer-down of the gesture before, where there was one
InitialStates_Stale(els, selected, elementId) ==
    LET elementIdsToDrag == ElementIdsToDrag(selected, elementId)
        old == IF "last" \in DOMAIN gesture THEN gesture.last.elements ELSE els
        selectedElements ==
            Filter(els, { el \in Range(els) : IncludesId(elementIdsToDrag, el.id) })
    IN  [ i \in DOMAIN selectedElements |->
            IF HasElement(old, selectedElements[i].id)
            THEN InitialState(getElementById(old, selectedElements[i].id))
            ELSE InitialState(selectedElements[i]) ]

\* initialStates of handleMouseDown
InitialStates(els, selected, elementId) ==
    LET elementIdsToDrag == ElementIdsToDrag(selected, elementId)
        selectedElements ==
            Filter(els, { el \in Range(els) : IncludesId(elementIdsToDrag, el.id) })
    IN  [ i \in DOMAIN selectedElements |-> InitialState(selectedElements[i]) ]

\* The selection handleMouseDown leaves
SelectionOnDown(selected, elementId, shiftKey) ==
    IF IncludesId(selected, elementId) THEN selected
    ELSE handleSelectElements(selected, << elementId >>, shiftKey)

\* The interaction state handleMouseDown sets; handle "" is a press on the body
InteractionOnDown(els, selected, elementId, handle, p) ==
    IF handle # ""
    THEN [ type |-> "resizing", element |-> getElementById(els, elementId),
           handle |-> handle, startX |-> p[1], startY |-> p[2] ]
    ELSE [ type |-> "dragging", startX |-> p[1], startY |-> p[2],
           initialStates |-> InitialStates(els, selected, elementId) ]

\* Mutant of handleMouseDown: no early return for an element that is not found
handleMouseDown_NoAbort(elementId, handle, p, shiftKey) ==
    /\ selectedElementIds' = SelectionOnDown(selectedElementIds, elementId, shiftKey)
    /\ emitted' = IF IncludesId(selectedElementIds, elementId) THEN << >>
                  ELSE << [ op |-> "select", ids |-> << elementId >>,
                            append |-> shiftKey ] >>
    /\ interaction' = [ type |-> "dragging", startX |-> p[1], startY |-> p[2],
                        initialStates |-> InitialStates(elements, selectedElementIds,
                                                        elementId) ]
    /\ gesture' = [ active |-> TRUE, downX |-> p[1], downY |-> p[2],
                    mouseX |-> p[1], mouseY |-> p[2], moves |-> 0,
                    pressed |-> elementId, elements |-> elements,
                    selected |-> selectedElementIds ]
    /\ nGestures' = nGestures + 1
    /\ failed' = FALSE
    /\ UNCHANGED << elements, nextId, nEdits >>

\* handleMouseDown(e, elementId, handle).  The history of an early return is
\* kept while no gesture is under way.
handleMouseDown(elementId, handle, p, shiftKey) ==
    IF ~HasElement(elements, elementId)
    THEN /\ failed' = FALSE
         /\ emitted' = << >>
         /\ gesture' = IF gesture.active THEN gesture
                       ELSE [ active |-> FALSE, aborted |-> elementId ]
         /\ UNCHANGED << elements, selectedElementIds, interaction, nextId,
                         nGestures, nEdits >>
    ELSE /\ selectedElementIds' = SelectionOnDown(selectedElementIds, elementId, shiftKey)
         /\ emitted' = IF IncludesId(selectedElementIds, elementId) THEN << >>
                       ELSE << [ op |-> "select", ids |-> << elementId >>,
                                 append |-> shiftKey ] >>
         /\ interaction' = InteractionOnDown(elements, selectedElementIds, elementId, handle, p)
         /\ gesture' = Started(gesture,
                               [ active |-> TRUE, downX |-> p[1], downY |-> p[2],
                                 mouseX |-> p[1], mouseY |-> p[2], moves |-> 0,
                                 pressed |-> elementId, elements |-> elements,
                                 selected |-> selectedElementIds ])
         /\ nGestures' = nGestures + 1
         /\ failed' = FALSE
         /\ UNCHANGED << elements, nextId, nEdits >>

\* Pointer-down on the interaction layer of a drawn element
MouseDownBody(elementId, p, shiftKey) ==
    /\ nGestures < MaxGestures
    /\ HasElement(elements, elementId)
    /\ handleMouseDown(elementId, "", p, shiftKey)

\* Pointer-down on a handle; handles are drawn on selected elements only
MouseDownHandle(elementId, handle, p, shiftKey) ==
    /\ nGestures < MaxGestures
    /\ HasElement(elements, elementId)
    /\ IncludesId(selectedElementIds, elementId)
    /\ handle \in Range(HandlesOf(getElementById(elements, elementId)))
    /\ handleMouseDown(elementId, handle, p, shiftKey)

\* Mutant of UpdatedElements: the batch holds the first snapshot entry alone
UpdatedElements_FirstOnly(els, initialStates, dx, dy) ==
    [ i \in 1..1 |->
        DraggedElement(getElementById(els, initialStates[i].id), initialStates[i], dx, dy) ]

\* updatedElements of the dragging branch
UpdatedElements(els, initialStates, dx, dy) ==
    [ i \in DOMAIN initialStates |->
        DraggedElement(getElementById(els, initialStates[i].id), initialStates[i], dx, dy) ]

\* The history of the gesture after a move to p
Moved(g, p) ==
    IF g.active THEN [ g EXCEPT !.mouseX = p[1], !.mouseY = p[2], !.moves = g.moves + 1 ]
    ELSE g

\* handleMouseMove, dragging branch
DragMove(p) ==
    LET dx == p[1] - interaction.startX
        dy == p[2] - interaction.startY
        missing == \E i \in DOMAIN interaction.initialStates :
                       ~HasElement(elements, interaction.initialStates[i].id)
        updatedElements == UpdatedElements(elements, interaction.initialStates, dx, dy)
    IN  /\ interaction.type = "dragging"
        /\ gesture.moves < MaxMoves
        /\ gesture' = Moved(gesture, p)
        /\ IF missing
           THEN \* getElementById(...)!.type on undefined: TypeError, nothing emitted
                /\ failed' = TRUE
                /\ emitted' = << >>
                /\ UNCHANGED elements
           ELSE /\ failed' = FALSE
                /\ emitted' = << [ op |-> "updateMany", elements |-> updatedElements ] >>
                /\ elements' = handleUpdateElements(elements, updatedElements)
        /\ UNCHANGED << selectedElementIds, interaction, nextId, nGestures, nEdits >>

\* Mutant of InteractionOnResize: advances the reference point for every kind
InteractionOnResize_RebaseAll(ia, p) ==
    [ ia EXCEPT !.startX = p[1], !.startY = p[2] ]

\* The interaction state a resizing pointer-move leaves: a line's reference point
\* and element are advanced by setInteraction, a box keeps its state
InteractionOnResize(ia, p) ==
    IF ia.element.type = "line"
    THEN [ ia EXCEPT !.startX = p[1], !.startY = p[2],
                     !.element = RebasedLine(ia.element, p[1] - ia.startX, p[2] - ia.startY) ]
    ELSE ia

\* handleMouseMove, resizing branch
ResizeMove(p) ==
    LET originalElement == interaction.element
        handle == interaction.handle
        dx == p[1] - interaction.startX
        dy == p[2] - interaction.startY
    IN  /\ interaction.type = "resizing"
        /\ gesture.moves < MaxMoves
        /\ gesture' = Moved(gesture, p)
        /\ failed' = FALSE
        /\ interaction' = InteractionOnResize(interaction, p)
        /\ IF originalElement.type = "line"
           THEN IF LineResizeEmits(handle)
                THEN LET updated == ResizedLine(originalElement, handle, dx, dy)
                     IN  /\ emitted' = << [ op |-> "updateOne", element |-> updated ] >>
                         /\ elements' = handleUpdateElement(elements, updated)
                ELSE /\ emitted' = << >>
                     /\ UNCHANGED elements
           ELSE LET updated == ResizedBox(originalElement, handle, dx, dy)
                IN  /\ emitted' = << [ op |-> "updateOne", element |-> updated ] >>
                    /\ elements' = handleUpdateElement(elements, updated)
        /\ UNCHANGED << selectedElementIds, nextId, nGestures, nEdits >>

\* Mutant of IdleMove: a move while idle clears the selection
IdleMove_Deselects(p) ==
    /\ interaction.type = "idle"
    /\ selectedElementIds' = << >>
    /\ failed' = FALSE
    /\ emitted' = << >>
    /\ UNCHANGED << elements, interaction, nextId, gesture, nGestures, nEdits >>

\* The effect that follows each render: the window's mousemove and mouseup
\* listeners are attached while the interaction state is not idle
ListenersAttached == interaction.type # "idle"

\* handleMouseMove while idle: the early return
IdleMove(p) ==
    /\ interaction.type = "idle"
    /\ failed' = FALSE
    /\ emitted' = << >>
    /\ UNCHANGED << elements, selectedElementIds, interaction, nextId,
                    gesture, nGestures, nEdits >>

\* handleMouseMove(e)
MouseMove(p) == DragMove(p) \/ ResizeMove(p) \/ IdleMove(p)

\* Mutant of MouseUp: releasing the pointer ends a resize but not a drag
MouseUp_KeepsDragging ==
    /\ interaction' = IF interaction.type = "resizing" THEN Idle ELSE interaction
    /\ gesture' = NoGesture
    /\ failed' = FALSE
    /\ emitted' = << >>
    /\ UNCHANGED << elements, selectedElementIds, nextId, nGestures, nEdits >>

\* Mutant of MouseUp: releasing the pointer also clears the selection
MouseUp_Deselects ==
    /\ interaction' = IF interaction.type # "idle" THEN Idle ELSE interaction
    /\ gesture' = NoGesture
    /\ selectedElementIds' = << >>
    /\ failed' = FALSE
    /\ emitted' = << >>
    /\ UNCHANGED << elements, nextId, nGestures, nEdits >>

\* handleMouseUp()
MouseUp ==
    /\ interaction' = IF interaction.type # "idle" THEN Idle ELSE interaction
    /\ gesture' = NoGesture
    /\ failed' = FALSE
    /\ emitted' = << >>
    /\ UNCHANGED << elements, selectedElementIds, nextId, nGestures, nEdits >>

----------------------------------------------------------------------------
(* The program *)

Next ==
    \/ \E type \in PdfElementType \ { "image" } : AddElement(type)
    \/ \E h \in ImageHeights : AddImage(h)
    \/ DeleteElements
    \/ DuplicateElements
    \/ \E design \in LoadedDesigns : LoadDesign(design)
    \/ \E name \in EditNames, value \in EditValues : EditProperty(name, value)
    \/ \E id \in Range(Ids(elements)), shiftKey \in BOOLEAN : ListClick(id, shiftKey)
    \/ BackgroundClick
    \/ \E id \in Range(Ids(elements)), p \in Pointers, shiftKey \in BOOLEAN :
          MouseDownBody(id, p, shiftKey)
    \/ \E id \in Range(Ids(elements)), p \in Pointers, shiftKey \in BOOLEAN,
          handle \in Range(RESIZE_HANDLES) \cup Range(LINE_RESIZE_HANDLES) :
          MouseDownHandle(id, handle, p, shiftKey)
    \/ \E p \in Pointers : MouseMove(p)
    \/ MouseUp

Spec == Init /\ [][Next]_vars

----------------------------------------------------------------------------
(* The program with handleMouseDown also called for an identifier that is   *)
(* not in the store.  Canvas renders its onMouseDown closures from the      *)
(* current elements, so the wiring above never makes such a call; this      *)
(* specification calls the handler with any identifier, as its early return *)
(* provides for.                                                            *)

\* The places of a pointer-down tried with a missing identifier: the body, a
\* handle of a box and a handle of a line
StaleHandles == { "", "se", "end" }

\* handleMouseDown(e, elementId, handle) with an elementId that find() misses,
\* arriving while no gesture is under way
StaleMouseDown(elementId, handle, p, shiftKey) ==
    /\ interaction.type = "idle"
    /\ ~HasElement(elements, elementId)
    /\ handleMouseDown(elementId, handle, p, shiftKey)

NextStale ==
    \/ Next
    \/ \E id \in 1..MaxIds, handle \in StaleHandles, p \in Pointers, shiftKey \in BOOLEAN :
          StaleMouseDown(id, handle, p, shiftKey)

SpecStale == Init /\ [][NextStale]_vars

----------------------------------------------------------------------------
(* The program with a design file whose element carries a kind outside      *)
(* PdfElementType: handleLoadDesign casts the parsed JSON to DesignFile and  *)
(* stores design.elements without looking at the elements.                   *)

\* The element lists of such design files: one box-shaped element of a fifth kind
ForeignDesigns ==
    { << [ id |-> 0, type |-> "shape", x |-> 50, y |-> 50,
           width |-> 200, height |-> 20, opacity |-> 100 ] >> }

\* What renderElement returns for an element: the tag of the node it draws,
\* "null" from the default branch
renderElement(element) ==
    CASE element.type = "text"        -> "div"
      [] element.type = "image"       -> "img"
      [] element.type = "line"        -> "div"
      [] element.type = "placeholder" -> "div"
      [] OTHER                        -> "null"

\* A session on the loaded design: no element is added to it or duplicated
NextForeign ==
    \/ \E design \in ForeignDesigns : LoadDesign(design)
    \/ DeleteElements
    \/ \E name \in EditNames, value \in EditValues : EditProperty(name, value)
    \/ \E id \in Range(Ids(elements)), shiftKey \in BOOLEAN : ListClick(id, shiftKey)
    \/ BackgroundClick
    \/ \E id \in Range(Ids(elements)), p \in Pointers, shiftKey \in BOOLEAN :
          MouseDownBody(id, p, shiftKey)
    \/ \E id \in Range(Ids(elements)), p \in Pointers, shiftKey \in BOOLEAN,
          handle \in Range(RESIZE_HANDLES) \cup Range(LINE_RESIZE_HANDLES) :
          MouseDownHandle(id, handle, p, shiftKey)
    \/ \E p \in Pointers : MouseMove(p)
    \/ MouseUp

SpecForeign == Init /\ [][NextForeign]_vars

----------------------------------------------------------------------------
(* A session on lines, with pointer positions that take a line's end onto   *)
(* its start: the line handleAddElement builds is 100 long, so a handle     *)
(* pressed at (100,0) and released at (0,0) is displaced by (-100,0).       *)

LinePointers == { <<0, 0>>, <<20, 5>>, <<100, 0>> }

NextLine ==
    \/ AddElement("line")
    \/ DeleteElements
    \/ \E id \in Range(Ids(elements)), shiftKey \in BOOLEAN : ListClick(id, shiftKey)
    \/ BackgroundClick
    \/ \E id \in Range(Ids(elements)), p \in LinePointers, shiftKey \in BOOLEAN :
          MouseDownBody(id, p, shiftKey)
    \/ \E id \in Range(Ids(elements)), p \in LinePointers, shiftKey \in BOOLEAN,
          handle \in Range(LINE_RESIZE_HANDLES) :
          MouseDownHandle(id, handle, p, shiftKey)
    \/ \E p \in LinePointers : MouseMove(p)
    \/ MouseUp

SpecLine == Init /\ [][NextLine]_vars

----------------------------------------------------------------------------
(* A session of adding elements and of pointer gestures, one gesture more   *)
(* than MaxGestures, in which the history of a finished gesture is kept     *)
(* while another can follow.                                                *)

\* Pointer-down on the interaction layer of a drawn element
MouseDownBodyAgain(elementId, p, shiftKey) ==
    /\ nGestures < MaxGestures + 1
    /\ HasElement(elements, elementId)
    /\ handleMouseDown(elementId, "", p, shiftKey)

\* Pointer-down on a handle; handles are drawn on selected elements only
MouseDownHandleAgain(elementId, handle, p, shiftKey) ==
    /\ nGestures < MaxGestures + 1
    /\ HasElement(elements, elementId)
    /\ IncludesId(selectedElementIds, elementId)
    /\ handle \in Range(HandlesOf(getElementById(elements, elementId)))
    /\ handleMouseDown(elementId, handle, p, shiftKey)

\* handleMouseUp(), with the history of the gesture it ends
MouseUpRemembering ==
    /\ interaction' = IF interaction.type # "idle" THEN Idle ELSE interaction
    /\ gesture' = IF nGestures < MaxGestures + 1 THEN Finished(gesture, interaction)
                  ELSE NoGesture
    /\ failed' = FALSE
    /\ emitted' = << >>
    /\ UNCHANGED << elements, selectedElementIds, nextId, nGestures, nEdits >>

NextAgain ==
    \/ \E type \in PdfElementType \ { "image" } : AddElement(type)
    \/ \E h \in ImageHeights : AddImage(h)
    \/ \E id \in Range(Ids(elements)), p \in Pointers, shiftKey \in BOOLEAN :
          MouseDownBodyAgain(id, p, shiftKey)
    \/ \E id \in Range(Ids(elements)), p \in Pointers, shiftKey \in BOOLEAN,
          handle \in Range(RESIZE_HANDLES) \cup Range(LINE_RESIZE_HANDLES) :
          MouseDownHandleAgain(id, handle, p, shiftKey)
    \/ \E p \in Pointers : MouseMove(p)
    \/ MouseUpRemembering

SpecAgain == Init /\ [][NextAgain]_vars

----------------------------------------------------------------------------
(* A session on a design saved from the program and loaded again: a text    *)
(* and a line as handleAddElement builds them, under the identifiers they   *)
(* got in the session that saved them.                                      *)

SavedDesigns == { << NewElement("text", 101, 0), NewElement("line", 102, 0) >> }

NextSaved ==
    \/ \E design \in SavedDesigns : LoadDesign(design)
    \/ DeleteElements
    \/ DuplicateElements
    \/ \E name \in EditNames, value \in EditValues : EditProperty(name, value)
    \/ \E id \in Range(Ids(elements)), shiftKey \in BOOLEAN : ListClick(id, shiftKey)
    \/ BackgroundClick

SpecSaved == Init /\ [][NextSaved]_vars

----------------------------------------------------------------------------
(* Properties.  The history variable `gesture` holds the store and the       *)
(* pointer at the pointer-down that started the gesture, and the pointer of  *)
(* its last pointer-move.                                                    *)

\* Total pointer displacement since pointer-down
TotalDx == gesture.mouseX - gesture.downX
TotalDy == gesture.mouseY - gesture.downY

\* The element as it was in the store at pointer-down
AtDown(id) == getElementById(gesture.elements, id)

\* The identifiers of the drag snapshot
SnapshotIds == { interaction.initialStates[i].id : i \in DOMAIN interaction.initialStates }

\* The last handler was a resizing pointer-move on a text, image or placeholder
\* that emitted an update
BoxResizeEmitted ==
    /\ interaction.type = "resizing"
    /\ interaction.element.type # "line"
    /\ emitted # << >>
    /\ emitted[1].op = "updateOne"

\* Width and height of a box resize before the floor is applied, from the
\* element at pointer-down and the total displacement
UnclampedWidth(o, handle, dx) ==
    IF handle \in { "e", "ne", "se" } THEN o.width + dx
    ELSE IF handle \in { "w", "nw", "sw" } THEN o.width - dx
    ELSE o.width

UnclampedHeight(o, handle, dy) ==
    IF handle \in { "s", "sw", "se" } THEN o.height + dy
    ELSE IF handle \in { "n", "nw", "ne" } THEN o.height - dy
    ELSE o.height

(* C1: while dragging, after one or more pointer-moves, every snapshot element
   in the store sits at its pointer-down position plus the total pointer
   displacement (both endpoints for a line), whatever the moves in between. *)
C1_DragFollowsTotalDisplacement ==
    (interaction.type = "dragging" /\ gesture.moves >= 1) =>
        \A id \in SnapshotIds :
            HasElement(elements, id) =>
                LET el == getElementById(elements, id)
                    el0 == AtDown(id)
                IN  /\ el.x = el0.x + TotalDx
                    /\ el.y = el0.y + TotalDy
                    /\ el0.type = "line" =>
                          /\ el.x2 = el0.x2 + TotalDx
                          /\ el.y2 = el0.y2 + TotalDy

\* Two elements, one a line, dragged together through two moves
C1_Witness ==
    /\ interaction.type = "dragging"
    /\ gesture.moves = 2
    /\ Cardinality(SnapshotIds) = 2
    /\ \A id \in SnapshotIds : HasElement(elements, id)
    /\ \E id \in SnapshotIds : AtDown(id).type = "line"
    /\ TotalDx = 0 /\ TotalDy = 0

(* C2: while resizing a line by its end handle, after one or more
   pointer-moves, (x2,y2) is the pointer-down (x2,y2) plus the total pointer
   displacement and (x,y) is unchanged. *)
C2_LineEndFollowsTotalDisplacement ==
    ( /\ interaction.type = "resizing"
      /\ interaction.element.type = "line"
      /\ interaction.handle = "end"
      /\ gesture.moves >= 1
      /\ HasElement(elements, gesture.pressed) ) =>
        LET el == getElementById(elements, gesture.pressed)
            el0 == AtDown(gesture.pressed)
        IN  /\ el.x2 = el0.x2 + TotalDx
            /\ el.y2 = el0.y2 + TotalDy
            /\ el.x = el0.x
            /\ el.y = el0.y

(* C3: while resizing a line by its start handle, after one or more
   pointer-moves, (x,y) is the pointer-down (x,y) plus the total pointer
   displacement and (x2,y2) is unchanged. *)
C3_LineStartFollowsTotalDisplacement ==
    ( /\ interaction.type = "resizing"
      /\ interaction.element.type = "line"
      /\ interaction.handle = "start"
      /\ gesture.moves >= 1
      /\ HasElement(elements, gesture.pressed) ) =>
        LET el == getElementById(elements, gesture.pressed)
            el0 == AtDown(gesture.pressed)
        IN  /\ el.x = el0.x + TotalDx
            /\ el.y = el0.y + TotalDy
            /\ el.x2 = el0.x2
            /\ el.y2 = el0.y2

\* A start handle moved twice, by (20,5) and then on to (195,18) in total
C3_Witness ==
    /\ interaction.type = "resizing"
    /\ interaction.element.type = "line"
    /\ interaction.handle = "start"
    /\ gesture.moves = 2
    /\ TotalDx = 195 /\ TotalDy = 18
    /\ interaction.startX = 195
    /\ HasElement(elements, gesture.pressed)
    /\ getElementById(elements, gesture.pressed).x = 345

(* C4: the element a box resize move emits has width and height of at least
   10; where the unclamped width (height) is below 10 it is exactly 10 with
   the opposite edge in place: the right (bottom) edge for w (n) handles, the
   origin x (y) for e (s) handles. *)
C4_ResizeFloor ==
    BoxResizeEmitted =>
        LET o == AtDown(gesture.pressed)
            h == interaction.handle
            e == emitted[1].element
        IN  /\ e.width >= 10
            /\ e.height >= 10
            /\ UnclampedWidth(o, h, TotalDx) < 10 =>
                  /\ e.width = 10
                  /\ h \in { "w", "nw", "sw" } => e.x + e.width = o.x + o.width
                  /\ h \in { "e", "ne", "se" } => e.x = o.x
            /\ UnclampedHeight(o, h, TotalDy) < 10 =>
                  /\ e.height = 10
                  /\ h \in { "n", "nw", "ne" } => e.y + e.height = o.y + o.height
                  /\ h \in { "s", "sw", "se" } => e.y = o.y

\* Text (50,50,200x20), handle nw moved by (195,18): x=240, y=60, 10x10
C4_Witness ==
    /\ BoxResizeEmitted
    /\ interaction.handle = "nw"
    /\ AtDown(gesture.pressed).type = "text"
    /\ AtDown(gesture.pressed).width = 200
    /\ TotalDx = 195 /\ TotalDy = 18
    /\ emitted[1].element.x = 240 /\ emitted[1].element.y = 60
    /\ emitted[1].element.width = 10 /\ emitted[1].element.height = 10

(* C5: where the unclamped width and height are both at least 10, a box
   resize move by (dx,dy) emits: width w0+dx for e handles, width w0-dx and
   x0+dx for w handles, height h0+dy for s handles, height h0-dy and y0+dy
   for n handles, and the pointer-down value of whatever the handle does not
   touch. *)
C5_ResizeDelta ==
    BoxResizeEmitted =>
        LET o == AtDown(gesture.pressed)
            h == interaction.handle
            e == emitted[1].element
        IN  ( UnclampedWidth(o, h, TotalDx) >= 10 /\ UnclampedHeight(o, h, TotalDy) >= 10 ) =>
                /\ e.width = ( IF h \in { "e", "ne", "se" } THEN o.width + TotalDx
                               ELSE IF h \in { "w", "nw", "sw" } THEN o.width - TotalDx
                               ELSE o.width )
                /\ e.x = ( IF h \in { "w", "nw", "sw" } THEN o.x + TotalDx ELSE o.x )
                /\ e.height = ( IF h \in { "s", "sw", "se" } THEN o.height + TotalDy
                                ELSE IF h \in { "n", "nw", "ne" } THEN o.height - TotalDy
                                ELSE o.height )
                /\ e.y = ( IF h \in { "n", "nw", "ne" } THEN o.y + TotalDy ELSE o.y )

\* Text (50,50,200x20), handle nw moved by (20,5): x=70, y=55, 180x15
C5_Witness ==
    /\ BoxResizeEmitted
    /\ interaction.handle = "nw"
    /\ AtDown(gesture.pressed).type = "text"
    /\ AtDown(gesture.pressed).width = 200
    /\ TotalDx = 20 /\ TotalDy = 5
    /\ emitted[1].element.x = 70 /\ emitted[1].element.y = 55
    /\ emitted[1].element.width = 180 /\ emitted[1].element.height = 15

(* C6: while resizing a box, the captured element and start position stay
   those of pointer-down, and after one or more pointer-moves the stored
   geometry is the resize rule applied to the pointer-down element with the
   total pointer displacement, whatever the moves in between. *)
C6_BoxResizeFromFixedStart ==
    ( /\ interaction.type = "resizing"
      /\ interaction.element.type # "line" ) =>
        /\ interaction.element = AtDown(gesture.pressed)
        /\ interaction.startX = gesture.downX
        /\ interaction.startY = gesture.downY
        /\ ( gesture.moves >= 1 /\ HasElement(elements, gesture.pressed) ) =>
              LET el == getElementById(elements, gesture.pressed)
                  r == ResizedBox(AtDown(gesture.pressed), interaction.handle,
                                  TotalDx, TotalDy)
              IN  /\ el.x = r.x /\ el.y = r.y
                  /\ el.width = r.width /\ el.height = r.height

\* A box resized through two moves, ending away from the pointer-down position
C6_Witness ==
    /\ interaction.type = "resizing"
    /\ interaction.element.type = "placeholder"
    /\ interaction.handle = "se"
    /\ gesture.moves = 2
    /\ gesture.downX = 20
    /\ TotalDx = 175
    /\ HasElement(elements, gesture.pressed)
    /\ getElementById(elements, gesture.pressed).width = 355

\* The last handler called select(ids, append)
SelectEmitted(e) == e # << >> /\ e[1].op = "select"

(* C7: a call select(ids, append) with append false makes the selection
   exactly ids; with append true it makes it the symmetric difference of the
   selection and ids, each member once. *)
C7_SelectSemantics ==
    [][ SelectEmitted(emitted') =>
          LET ids == emitted'[1].ids
              S == Range(selectedElementIds)
              I == Range(ids)
          IN  IF emitted'[1].append
              THEN /\ Range(selectedElementIds') = (S \ I) \cup (I \ S)
                   /\ Cardinality(Range(selectedElementIds')) = Len(selectedElementIds')
              ELSE selectedElementIds' = ids ]_vars

\* A shift-click has just removed an identifier from a selection of two
C7_Witness ==
    /\ SelectEmitted(emitted)
    /\ emitted[1].append
    /\ ~IncludesId(selectedElementIds, emitted[1].ids[1])
    /\ Len(selectedElementIds) = 1

(* C8: for the current selection S and any identifier A, select([A], true)
   applied twice gives a selection with the members of S. *)
C8_ToggleTwiceRestores ==
    \A A \in 1..MaxIds :
        Range(handleSelectElements(
                  handleSelectElements(selectedElementIds, << A >>, TRUE),
                  << A >>, TRUE))
            = Range(selectedElementIds)

\* Two identifiers selected, the first of them toggled first
C8_Witness ==
    /\ Len(selectedElementIds) = 2
    /\ handleSelectElements(selectedElementIds, << selectedElementIds[1] >>, TRUE)
           = << selectedElementIds[2] >>

(* C9: a pointer-move or a pointer-up, in whatever interaction state, leaves
   the selection as it was. *)
C9_MoveAndUpKeepSelection ==
    [][ ( (\E p \in Pointers : MouseMove(p)) \/ MouseUp )
            => selectedElementIds' = selectedElementIds ]_vars

\* Two elements selected while a gesture has moved twice
C9_Witness ==
    /\ interaction.type # "idle"
    /\ gesture.moves = 2
    /\ Len(selectedElementIds) = 2

\* What C10 asks of a pointer-down on the body of element id
C10_Post(id, shiftKey) ==
    /\ interaction'.type = "dragging"
    /\ IF IncludesId(selectedElementIds, id)
       THEN /\ selectedElementIds' = selectedElementIds
            /\ emitted' = << >>
            /\ { interaction'.initialStates[i].id : i \in DOMAIN interaction'.initialStates }
                   = Range(selectedElementIds)
       ELSE /\ emitted' = << [ op |-> "select", ids |-> << id >>, append |-> shiftKey ] >>
            /\ IF shiftKey
               THEN Range(selectedElementIds') = Range(selectedElementIds) \cup { id }
               ELSE selectedElementIds' = << id >>
            /\ { interaction'.initialStates[i].id : i \in DOMAIN interaction'.initialStates }
                   = { id }
    /\ \A i \in DOMAIN interaction'.initialStates :
          LET st == interaction'.initialStates[i]
              el == getElementById(elements, st.id)
          IN  /\ st.x = el.x /\ st.y = el.y
              /\ IF el.type = "line"
                 THEN st.x2 = el.x2 /\ st.y2 = el.y2
                 ELSE DOMAIN st = { "id", "x", "y" }

(* C10: a pointer-down on an element body while idle enters Dragging; if the
   element is selected the selection stays and the snapshot covers exactly
   the selected elements, otherwise select([pressed], shift) is called and
   the snapshot covers the pressed element alone; each entry records the
   element's current x,y, and x2,y2 for a line. *)
C10_PointerDownOnBody ==
    [][ \A id \in Range(Ids(elements)), p \in Pointers, shiftKey \in BOOLEAN :
          ( interaction.type = "idle" /\ MouseDownBody(id, p, shiftKey) )
              => C10_Post(id, shiftKey) ]_vars

\* A press on one of two selected elements, one a line: both are in the snapshot
C10_Witness ==
    /\ interaction.type = "dragging"
    /\ gesture.moves = 0
    /\ Len(gesture.selected) = 2
    /\ IncludesId(gesture.selected, gesture.pressed)
    /\ Len(interaction.initialStates) = 2
    /\ \E i \in 1..2 : "x2" \in DOMAIN interaction.initialStates[i]

(* C11: a pointer-move while resizing changes at most the element captured at
   pointer-down on the handle: the store keeps its length and order, and
   every element with another identifier, selected or not, is as it was. *)
C11_ResizeTouchesCapturedOnly ==
    [][ (\E p \in Pointers : ResizeMove(p)) =>
          /\ DOMAIN elements' = DOMAIN elements
          /\ \A i \in DOMAIN elements :
                elements[i].id # interaction.element.id => elements'[i] = elements[i] ]_vars

\* Two elements selected, one resized by a move that changed it and not the other
C11_Witness ==
    /\ interaction.type = "resizing"
    /\ gesture.moves >= 1
    /\ Len(gesture.selected) = 2
    /\ Len(elements) = 2
    /\ \E i, j \in DOMAIN elements :
          /\ elements[i].id = gesture.pressed
          /\ elements[i] # AtDown(gesture.pressed)
          /\ elements[j].id # gesture.pressed
          /\ IncludesId(selectedElementIds, elements[j].id)
          /\ elements[j] = AtDown(elements[j].id)

\* Every element of the drag snapshot is in the store
SnapshotPresent ==
    \A i \in DOMAIN interaction.initialStates :
        HasElement(elements, interaction.initialStates[i].id)

\* What C12 asks of a dragging pointer-move to p: one batch, holding every
\* snapshot element at its snapshot position plus the displacement, and all of
\* them in the store after the move
C12_Post(p) ==
    LET dx == p[1] - interaction.startX
        dy == p[2] - interaction.startY
        st == interaction.initialStates
    IN  /\ Len(emitted') = 1
        /\ emitted'[1].op = "updateMany"
        /\ Len(emitted'[1].elements) = Len(st)
        /\ \A i \in DOMAIN st :
              LET u == emitted'[1].elements[i]
              IN  /\ u.id = st[i].id
                  /\ u.x = st[i].x + dx /\ u.y = st[i].y + dy
                  /\ "x2" \in DOMAIN st[i] =>
                        u.x2 = st[i].x2 + dx /\ u.y2 = st[i].y2 + dy
                  /\ HasElement(elements', u.id)
                  /\ getElementById(elements', u.id) = u

(* C12 as stated: every pointer-move in Dragging emits exactly one batch
   update holding every snapshot element at its new position, and the store
   then holds all of them at the new position. *)
C12_EveryDragMoveEmitsOneBatch ==
    [][ \A p \in Pointers : DragMove(p) => C12_Post(p) ]_vars

(* C12, amended: while every snapshot element is still in the store, a
   pointer-move in Dragging emits exactly one batch update holding every
   snapshot element at its new position, and the store then holds all of
   them at the new position; no state has some moved and others not. *)
C12_DragMoveEmitsOneBatch ==
    [][ \A p \in Pointers : (DragMove(p) /\ SnapshotPresent) => C12_Post(p) ]_vars

\* Two elements dragged from (0,0) to (20,5): one batch of two, both in the
\* store 5 further down than at pointer-down
C12_Witness ==
    /\ interaction.type = "dragging"
    /\ gesture.moves = 1
    /\ TotalDx = 20 /\ TotalDy = 5
    /\ Len(emitted) = 1
    /\ emitted[1].op = "updateMany"
    /\ Len(emitted[1].elements) = 2
    /\ \A i \in 1..2 :
          /\ HasElement(elements, emitted[1].elements[i].id)
          /\ getElementById(elements, emitted[1].elements[i].id).y
                 = AtDown(emitted[1].elements[i].id).y + 5

(* C13: a pointer-up leaves the machine idle, from Dragging, from Resizing and
   from Idle, and leaves every element as the last handler before it left
   it. *)
C13_PointerUpReturnsToIdle ==
    [][ MouseUp => ( interaction' = Idle /\ elements' = elements ) ]_vars

\* Idle again after a gesture that took a text element to (70,55)
C13_Witness ==
    /\ interaction.type = "idle"
    /\ nGestures = 1
    /\ ~gesture.active
    /\ \E i \in DOMAIN elements :
          elements[i].type = "text" /\ elements[i].x = 70 /\ elements[i].y = 55

(* C14: a pointer-move of a drag or a resize leaves the sequence of element
   identifiers of the store (the z-order) as it was. *)
C14_GestureKeepsOrder ==
    [][ (\E p \in Pointers : MouseMove(p)) => Ids(elements') = Ids(elements) ]_vars

\* The elements carried by the store callbacks of a handler
UpdatesOf(e) ==
    UNION { IF e[k].op = "updateOne" THEN { e[k].element }
            ELSE IF e[k].op = "updateMany" THEN Range(e[k].elements)
            ELSE { } : k \in DOMAIN e }

\* The identifier and kind of every element of a store
IdKinds(els) == { << els[i].id, els[i].type >> : i \in DOMAIN els }

(* C15: after every step the identifiers of the store are pairwise distinct;
   a pointer-move leaves the identifier and kind of every element as they
   were, and every update it emits for an element of the store carries that
   element's kind. *)
C15_IdsUniqueAndStable ==
    [][ /\ \A i, j \in DOMAIN elements' : elements'[i].id = elements'[j].id => i = j
        /\ (\E p \in Pointers : MouseMove(p)) =>
              /\ IdKinds(elements') = IdKinds(elements)
              /\ \A u \in UpdatesOf(emitted') :
                    HasElement(elements, u.id) =>
                        getElementById(elements, u.id).type = u.type ]_vars

\* An element and its duplicate, dragged together
C15_Witness ==
    /\ interaction.type = "dragging"
    /\ gesture.moves >= 1
    /\ Len(gesture.elements) = 2
    /\ gesture.elements[2] = DuplicatedElement(gesture.elements[1], 2)
    /\ Len(interaction.initialStates) = 2
    /\ Len(elements) = 2
    /\ elements[1].id # elements[2].id
    /\ UpdatesOf(emitted) # { }

(* C16: after every step each selected identifier is the identifier of an
   element of the store; a delete removes the selected elements, keeps the
   others, and leaves the selection empty. *)
C16_SelectionRefersToElements ==
    [][ /\ \A i \in DOMAIN selectedElementIds' :
              HasElement(elements', selectedElementIds'[i])
        /\ DeleteElements =>
              /\ selectedElementIds' = << >>
              /\ Range(elements')
                     = { el \in Range(elements) : el.id \notin Range(selectedElementIds) }
              /\ Len(elements') = Cardinality(Range(elements')) ]_vars

\* Of two elements, the one being dragged was deleted in the middle of the
\* drag: the other is left, nothing is selected
C16_Witness ==
    /\ interaction.type = "dragging"
    /\ Len(gesture.elements) = 2
    /\ Len(elements) = 1
    /\ elements[1].id # gesture.pressed
    /\ ~HasElement(elements, gesture.pressed)
    /\ selectedElementIds = << >>

(* C17: a pointer-down, on a body or on a handle, that names an identifier
   not in the element list returns at once: the interaction state stays as
   it was (idle stays idle, no snapshot), the selection and the store are
   untouched, no callback is called and nothing fails. *)
C17_PointerDownOnMissingAborts ==
    [][ interaction.type = "idle" =>
          \A id \in 1..MaxIds :
              ~HasElement(elements, id) =>
                  \A handle \in StaleHandles, p \in Pointers, shiftKey \in BOOLEAN :
                      StaleMouseDown(id, handle, p, shiftKey) =>
                          /\ interaction' = Idle
                          /\ selectedElementIds' = selectedElementIds
                          /\ elements' = elements
                          /\ emitted' = << >>
                          /\ ~failed' ]_vars

\* Idle after a pointer-down that named a deleted element, with another
\* element in the store and selected
C17_Witness ==
    /\ interaction = Idle
    /\ ~gesture.active
    /\ "aborted" \in DOMAIN gesture
    /\ gesture.aborted <= nextId
    /\ ~HasElement(elements, gesture.aborted)
    /\ Len(elements) = 1
    /\ Len(selectedElementIds) = 1

\* An element covered by the active gesture is no longer in the store
GestureElementRemoved ==
    IF interaction.type = "dragging" THEN ~SnapshotPresent
    ELSE IF interaction.type = "resizing"
         THEN ~HasElement(elements, interaction.element.id)
         ELSE FALSE

(* C18: a pointer-move that arrives after an element covered by the active
   gesture was removed from the store is skipped: no update is emitted, the
   store is left as it was, and the handler does not fail. *)
C18_MoveAfterRemovalIsSkipped ==
    [][ ( GestureElementRemoved /\ (\E p \in Pointers : MouseMove(p)) ) =>
          /\ emitted' = << >>
          /\ elements' = elements
          /\ ~failed' ]_vars

(* C19: an element whose kind is none of text, image, line, placeholder is
   never in a rendered store without a failure: whatever put or left it
   there (load, drag, resize) has failed, and it is not drawn as nothing. *)
C19_UnknownKindFailsLoudly ==
    \A i \in DOMAIN elements :
        ( elements[i].type \notin PdfElementType \/ renderElement(elements[i]) = "null" )
            => failed

(* C20: while dragging, after one or more pointer-moves, the bounding box of
   every dragged element has its origin at the origin it had at pointer-down
   plus the total pointer displacement, and the width and height it had at
   pointer-down. *)
C20_BoundingBoxFollowsDrag ==
    (interaction.type = "dragging" /\ gesture.moves >= 1) =>
        \A id \in SnapshotIds :
            HasElement(elements, id) =>
                LET box == BoundingBox(getElementById(elements, id))
                    box0 == BoundingBox(AtDown(id))
                IN  /\ box.boxX = box0.boxX + TotalDx
                    /\ box.boxY = box0.boxY + TotalDy
                    /\ box.boxWidth = box0.boxWidth
                    /\ box.boxHeight = box0.boxHeight

\* A line whose end lies left of its start (x2 edited to 5) dragged by (20,5)
\* together with a box: the line's box goes from (5,150) to (25,155), 145 wide
C20_Witness ==
    /\ interaction.type = "dragging"
    /\ gesture.moves >= 1
    /\ TotalDx = 20 /\ TotalDy = 5
    /\ Cardinality(SnapshotIds) = 2
    /\ \E id \in SnapshotIds :
          /\ HasElement(elements, id)
          /\ AtDown(id).type = "line"
          /\ AtDown(id).x2 < AtDown(id).x
          /\ BoundingBox(getElementById(elements, id))
                 = [ boxX |-> 25, boxY |-> 155, boxWidth |-> 145, boxHeight |-> 0 ]

(* C21: while resizing a line by its end handle, once the pointer has moved,
   by whatever moves, to a total displacement that takes the end onto the
   start, the line in the store has (x2,y2) = (x,y), its start is where it
   was at pointer-down, and nothing has failed. *)
C21_EndOntoStartGivesZeroLength ==
    ( /\ interaction.type = "resizing"
      /\ interaction.element.type = "line"
      /\ interaction.handle = "end"
      /\ gesture.moves >= 1
      /\ HasElement(elements, gesture.pressed)
      /\ TotalDx = AtDown(gesture.pressed).x - AtDown(gesture.pressed).x2
      /\ TotalDy = AtDown(gesture.pressed).y - AtDown(gesture.pressed).y2 ) =>
        LET el == getElementById(elements, gesture.pressed)
        IN  /\ el.x2 = el.x
            /\ el.y2 = el.y
            /\ el.x = AtDown(gesture.pressed).x
            /\ el.y = AtDown(gesture.pressed).y
            /\ ~failed

(* C22 as stated: the element a box resize move emits with handle e or w has
   the y and the height of the element at pointer-down, and with handle n or
   s its x and width, whatever that width and height are. *)
C22_EdgeHandlesOneAxis ==
    BoxResizeEmitted =>
        LET o == AtDown(gesture.pressed)
            h == interaction.handle
            e == emitted[1].element
        IN  /\ h \in { "e", "w" } => ( e.y = o.y /\ e.height = o.height )
            /\ h \in { "n", "s" } => ( e.x = o.x /\ e.width = o.width )

(* C22, amended: with handle e or w the emitted element has the y of the
   element at pointer-down, and its height, or 10 where that height is below
   10; with handle n or s it has the x of the element at pointer-down, and
   its width, or 10 where that width is below 10. *)
C22_EdgeHandlesOneAxisAboveFloor ==
    BoxResizeEmitted =>
        LET o == AtDown(gesture.pressed)
            h == interaction.handle
            e == emitted[1].element
        IN  /\ h \in { "e", "w" } =>
                  /\ e.y = o.y
                  /\ e.height = ( IF o.height < 10 THEN 10 ELSE o.height )
            /\ h \in { "n", "s" } =>
                  /\ e.x = o.x
                  /\ e.width = ( IF o.width < 10 THEN 10 ELSE o.width )

\* An image 5 high resized by its e handle: y stays 100, the height becomes 10
C22_Witness ==
    /\ BoxResizeEmitted
    /\ interaction.handle = "e"
    /\ AtDown(gesture.pressed).type = "image"
    /\ AtDown(gesture.pressed).height = 5
    /\ TotalDx = 20
    /\ emitted[1].element.width = 170
    /\ emitted[1].element.y = 100
    /\ emitted[1].element.height = 10

\* Element a with the position fields of element b
WithPositionOf(a, b) ==
    IF "x2" \in DOMAIN a /\ "x2" \in DOMAIN b
    THEN [ a EXCEPT !.x = b.x, !.y = b.y, !.x2 = b.x2, !.y2 = b.y2 ]
    ELSE [ a EXCEPT !.x = b.x, !.y = b.y ]

(* C23: a pointer-move in Dragging leaves the store with the same elements;
   an element of the snapshot differs from what it was before the move in
   x, y (and x2, y2 for a line) at most, and every other element is as it
   was. *)
C23_DragChangesPositionOnly ==
    [][ \A p \in Pointers :
          DragMove(p) =>
              /\ Len(elements') = Len(elements)
              /\ \A i \in DOMAIN elements :
                    /\ HasElement(elements', elements[i].id)
                    /\ LET before == elements[i]
                           after == getElementById(elements', before.id)
                       IN  IF before.id \in SnapshotIds
                           THEN WithPositionOf(after, before) = before
                           ELSE after = before ]_vars

\* Of two elements, the one with an edited opacity has been dragged by (20,5)
\* and kept it; the other, outside the snapshot, is as it was
C23_Witness ==
    /\ interaction.type = "dragging"
    /\ gesture.moves >= 1
    /\ TotalDx = 20 /\ TotalDy = 5
    /\ Len(elements) = 2
    /\ SnapshotIds = { gesture.pressed }
    /\ \E i, j \in DOMAIN elements :
          /\ elements[i].id = gesture.pressed
          /\ elements[i].opacity = 5
          /\ elements[i].x = AtDown(gesture.pressed).x + 20
          /\ elements[j].id # gesture.pressed
          /\ elements[j] = AtDown(elements[j].id)

\* The gesture under way follows a complete drag (one move or more)
AfterDrag ==
    /\ gesture.active
    /\ "last" \in DOMAIN gesture
    /\ gesture.last.type = "dragging"
    /\ gesture.last.moves >= 1

\* Element id as it was at the pointer-down of the drag before, moved by that
\* drag's total displacement
DraggedBefore(id) ==
    LET el0 == getElementById(gesture.last.elements, id)
    IN  IF el0.type = "line"
        THEN [ el0 EXCEPT !.x = el0.x + gesture.last.dx, !.y = el0.y + gesture.last.dy,
                          !.x2 = el0.x2 + gesture.last.dx, !.y2 = el0.y2 + gesture.last.dy ]
        ELSE [ el0 EXCEPT !.x = el0.x + gesture.last.dx, !.y = el0.y + gesture.last.dy ]

(* C24: in a gesture that follows a complete drag with total displacement d1:
   a drag snapshot records, for each element the first drag moved, its
   position after that drag; after moves with total displacement d2 such an
   element is at its original position plus d1 + d2; and a resize of such an
   element captures it as the first drag left it and, for a text, image or
   placeholder, stores the resize rule applied to that geometry. *)
C24_GestureStartsFromCurrentGeometry ==
    AfterDrag =>
        /\ interaction.type = "dragging" =>
              \A i \in DOMAIN interaction.initialStates :
                  LET st == interaction.initialStates[i]
                  IN  st.id \in gesture.last.ids =>
                        /\ st.x = DraggedBefore(st.id).x
                        /\ st.y = DraggedBefore(st.id).y
                        /\ "x2" \in DOMAIN st =>
                              /\ st.x2 = DraggedBefore(st.id).x2
                              /\ st.y2 = DraggedBefore(st.id).y2
                        /\ ( gesture.moves >= 1 /\ HasElement(elements, st.id) ) =>
                              LET el == getElementById(elements, st.id)
                                  el0 == getElementById(gesture.last.elements, st.id)
                              IN  /\ el.x = el0.x + gesture.last.dx + TotalDx
                                  /\ el.y = el0.y + gesture.last.dy + TotalDy
                                  /\ el0.type = "line" =>
                                        /\ el.x2 = el0.x2 + gesture.last.dx + TotalDx
                                        /\ el.y2 = el0.y2 + gesture.last.dy + TotalDy
        /\ ( interaction.type = "resizing" /\ gesture.pressed \in gesture.last.ids ) =>
              /\ AtDown(gesture.pressed) = DraggedBefore(gesture.pressed)
              /\ gesture.moves = 0 => interaction.element = DraggedBefore(gesture.pressed)
              /\ ( /\ interaction.element.type # "line"
                   /\ gesture.moves >= 1
                   /\ HasElement(elements, gesture.pressed) ) =>
                    getElementById(elements, gesture.pressed)
                        = ResizedBox(DraggedBefore(gesture.pressed), interaction.handle,
                                     TotalDx, TotalDy)

\* A text dragged by (20,5), released, and dragged again by (175,13): it is at
\* (50,50) + (195,18)
C24_Witness ==
    /\ AfterDrag
    /\ interaction.type = "dragging"
    /\ gesture.moves >= 1
    /\ gesture.last.dx = 20 /\ gesture.last.dy = 5
    /\ TotalDx = 175 /\ TotalDy = 13
    /\ gesture.pressed \in gesture.last.ids
    /\ getElementById(gesture.last.elements, gesture.pressed).type = "text"
    /\ HasElement(elements, gesture.pressed)
    /\ getElementById(elements, gesture.pressed).x = 245
    /\ getElementById(elements, gesture.pressed).y = 68

(* C25: a pointer-move while idle leaves the store, the selection and the
   idle state as they are and calls no callback; a pointer-move while
   dragging or resizing is handled (it counts as a move of the gesture, and
   emits an update when the elements of the gesture are in the store); the
   move listener is attached exactly in Dragging and Resizing, and is off
   after a pointer-up. *)
C25_MovesHandledOnlyInGesture ==
    [][ /\ ListenersAttached <=> interaction.type \in { "dragging", "resizing" }
        /\ \A p \in Pointers :
              MouseMove(p) =>
                  IF interaction.type = "idle"
                  THEN /\ elements' = elements
                       /\ selectedElementIds' = selectedElementIds
                       /\ emitted' = << >>
                       /\ interaction' = Idle
                       /\ gesture' = gesture
                  ELSE /\ gesture'.moves = gesture.moves + 1
                       /\ ~GestureElementRemoved => UpdatesOf(emitted') # { }
        /\ MouseUp => ~ListenersAttached' ]_vars

\* Idle after the pointer-up of a gesture, two elements in the store and
\* selected: pointer-moves arrive here and change nothing
C25_Witness ==
    /\ interaction.type = "idle"
    /\ ~ListenersAttached
    /\ nGestures = 1
    /\ ~gesture.active
    /\ Len(elements) = 2
    /\ Len(selectedElementIds) = 2
    /\ emitted = << >>
    /\ ~failed

(* C26: in every Resizing state the captured handle is start or end if and
   only if the captured element is a line, and is one of the eight box
   handles otherwise; the captured element is the one pressed, and it was
   selected at the pointer-down that started the gesture. *)
C26_ResizingHandleFitsKind ==
    interaction.type = "resizing" =>
        /\ interaction.handle \in { "start", "end" } <=> interaction.element.type = "line"
        /\ interaction.element.type # "line" =>
              interaction.handle \in { "n", "s", "e", "w", "nw", "ne", "sw", "se" }
        /\ interaction.element.id = gesture.pressed
        /\ IncludesId(gesture.selected, gesture.pressed)

\* A line, one of two selected elements, held by its end handle through two moves
C26_Witness ==
    /\ interaction.type = "resizing"
    /\ interaction.element.type = "line"
    /\ interaction.handle = "end"
    /\ gesture.moves = 2
    /\ Len(gesture.selected) = 2
    /\ IncludesId(gesture.selected, interaction.element.id)

(* C27: a duplicate keeps every element of the store as and where it is and
   appends, for each selected element in array order, one copy: under an
   identifier that is neither in the store nor given to another copy, of the
   same kind and with the same fields, x and y (and x2 and y2 of a line)
   greater by 10 and every other field equal; the selection becomes the
   identifiers of the copies, in that order. *)
C27_DuplicateAppendsOffsetCopies ==
    [][ DuplicateElements =>
          LET n == Len(elements)
              originals == Filter(elements, { el \in Range(elements) :
                                               IncludesId(selectedElementIds, el.id) })
              k == Len(originals)
          IN  /\ Len(elements') = n + k
              /\ SubSeq(elements', 1, n) = elements
              /\ \A j \in 1..k :
                    LET copy == elements'[n + j]
                        o == originals[j]
                    IN  /\ ~HasElement(elements, copy.id)
                        /\ \A j2 \in 1..k : elements'[n + j2].id = copy.id => j2 = j
                        /\ DOMAIN copy = DOMAIN o
                        /\ copy.type = o.type
                        /\ copy.x = o.x + 10 /\ copy.y = o.y + 10
                        /\ "x2" \in DOMAIN o =>
                              copy.x2 = o.x2 + 10 /\ copy.y2 = o.y2 + 10
                        /\ \A f \in DOMAIN o \ { "id", "x", "y", "x2", "y2" } :
                              copy[f] = o[f]
              /\ selectedElementIds' = [ j \in 1..k |-> elements'[n + j].id ] ]_vars

\* A text and a line, selected line first, and after them their two copies, in
\* array order and selected
C27_Witness ==
    /\ Len(elements) = 4
    /\ elements[1].type = "text" /\ elements[2].type = "line"
    /\ elements[3].type = "text" /\ elements[4].type = "line"
    /\ elements[3].x = elements[1].x + 10
    /\ elements[4].x2 = elements[2].x2 + 10
    /\ elements[4].y2 = elements[2].y2 + 10
    /\ elements[2].x2 = 5
    /\ selectedElementIds = << elements[3].id, elements[4].id >>
    /\ Cardinality({ elements[i].id : i \in 1..4 }) = 4

====
